---- MODULE Spec2Model ----
(***************************************************************************)
(* Model of the collector logging facade, src/collector/log.go.            *)
(*                                                                         *)
(* The facade is a package-wide logger slot guarded by a mutex             *)
(* (collectorLog), two int32 flags read and written atomically (debug,     *)
(* trace), three configuration functions (ConfigureLogger, SetLogger,      *)
(* RemoveLogger) and five logging functions (Noticef, Errorf, Fatalf,      *)
(* Debugf, Tracef) that go through executeLogCall.                         *)
(*                                                                         *)
(* Goroutines are the elements of Threads.  Every access to shared memory  *)
(* (an atomic load or store, a Lock, an Unlock, a read or a write of the   *)
(* slot) is one step of one goroutine; steps of different goroutines       *)
(* interleave freely.  The backends built by the nats-server logger        *)
(* package are outside the repository: a backend is a value that records   *)
(* which constructor built it and with which arguments, and an operation   *)
(* on a backend is a begin step and a return step.                         *)
(***************************************************************************)
EXTENDS Integers, Sequences, FiniteSets, TLC

\* ------------------------------------------------------------------ bounds

\* Number of goroutines that use the facade.
NumThreads == 2

\* Number of backends ConfigureLogger may construct in one run.
MaxBuilt == 2

\* Number of distinct caller-supplied loggers handed to SetLogger.
NumTestLoggers == 2

\* LogType values handed to ConfigureLogger are 0..MaxLogType; the values
\* above FileLogType match no case of the switch.
MaxLogType == 4

\* ------------------------------------------------------- program constants

ConsoleLogType == 0
SysLogType == 1
RemoteSysLogType == 2
FileLogType == 3

\* ---------------------------------------------------------------- values

Threads == 1..NumThreads

\* No goroutine: the value of the mutex when it is free.
NoThread == 0

\* The nil Logger interface value.
NoLogger == [kind |-> "nil", logtime |-> FALSE, debug |-> FALSE, trace |-> FALSE, id |-> 0]

\* A Logger implemented by the caller (a test double), handed to SetLogger.
TestLogger(i) == [kind |-> "test", logtime |-> FALSE, debug |-> FALSE, trace |-> FALSE, id |-> i]

TestLoggers == {TestLogger(i) : i \in 1..NumTestLoggers}

\* The values of the nats-server constructors: each call returns a new
\* object (id) that remembers its variant and the arguments it was given.
NewFileLogger(time, dbg, trc, id) == [kind |-> "file", logtime |-> time, debug |-> dbg, trace |-> trc, id |-> id]

NewRemoteSysLogger(dbg, trc, id) == [kind |-> "remote-syslog", logtime |-> FALSE, debug |-> dbg, trace |-> trc, id |-> id]

NewStdLogger(time, dbg, trc, id) == [kind |-> "console", logtime |-> time, debug |-> dbg, trace |-> trc, id |-> id]

NewSysLogger(dbg, trc, id) == [kind |-> "syslog", logtime |-> FALSE, debug |-> dbg, trace |-> trc, id |-> id]

\* The zero LoggerOptions value, &LoggerOptions{}.
ZeroOptions == [Debug |-> FALSE, Trace |-> FALSE, Logtime |-> FALSE, LogType |-> 0]

\* A *LoggerOptions argument: the nil pointer or a pointer to a struct.
NilOptions == [nil |-> TRUE, val |-> ZeroOptions]

OptionsInputs == {NilOptions} \cup {[nil |-> FALSE, val |-> [Debug |-> d, Trace |-> t, Logtime |-> FALSE, LogType |-> k]] : d \in BOOLEAN, t \in BOOLEAN, k \in 0..MaxLogType}

\* The (format, v...) pairs handed to the logging functions.
Messages == {[format |-> "x=%d", args |-> <<5>>], [format |-> "y", args |-> <<>>]}

LogOps == {"Noticef", "Errorf", "Fatalf", "Debugf", "Tracef"}

\* The frame of a goroutine that is between two calls.
NoFrame == [op |-> "none", format |-> "", args |-> <<>>, lOpts |-> NilOptions, l |-> NoLogger, sent |-> <<>>, made |-> <<>>]

\* The state of the facade a call starts from.
NoSnapshot == [debug |-> 0, trace |-> 0, logger |-> NoLogger]

\* The configuration call before the one observed: its function, its
\* argument and whether both flags were off when it started.
NoCall == [op |-> "none", lOpts |-> NilOptions, clean |-> FALSE]

\* The notebook of an observer who has seen no call yet.
NoNotes == [returned |-> FALSE, call |-> NoFrame, entry |-> NoSnapshot, prev |-> NoCall]

\* ----------------------------------------------------------------- state

\* debug, trace: the package flags.  logger, mutex: collectorLog.  built:
\* the number of backends constructed so far.  pc, frame: where each
\* goroutine is and the call it is in.  obs: the notebook of an observer of
\* one goroutine (a history variable, no part of the program).
VARIABLES debug, trace, logger, mutex, built, pc, frame, obs

vars == <<debug, trace, logger, mutex, built, pc, frame, obs>>

Init ==
    /\ debug = 0
    /\ trace = 0
    /\ logger = NoLogger
    /\ mutex = NoThread
    /\ built = 0
    /\ pc = [t \in Threads |-> "idle"]
    /\ frame = [t \in Threads |-> NoFrame]
    /\ obs = NoNotes

\* --------------------------------------------------------------- helpers

\* A goroutine is between two calls.
AtRest(t) == pc[t] = "idle"

\* A nil-interface method call has panicked: the process is gone.
Crashed == \E t \in Threads : pc[t] = "panic"

\* opts of ConfigureLogger: the argument or a zero struct, Logtime forced on.
Options(lOpts) == [(IF lOpts.nil THEN ZeroOptions ELSE lOpts.val) EXCEPT !.Logtime = TRUE]

\* The switch with a default case that builds a console backend.
NewLogger_DefaultConsole(opts, id) ==
    CASE opts.LogType = FileLogType -> NewFileLogger(opts.Logtime, opts.Debug, opts.Trace, id)
      [] opts.LogType = RemoteSysLogType -> NewRemoteSysLogger(opts.Debug, opts.Trace, id)
      [] opts.LogType = SysLogType -> NewSysLogger(opts.Debug, opts.Trace, id)
      [] OTHER -> NewStdLogger(opts.Logtime, opts.Debug, opts.Trace, id)

\* The switch with the SysLogType case calling NewRemoteSysLogger.
NewLogger_SyslogAsRemote(opts, id) ==
    CASE opts.LogType = FileLogType -> NewFileLogger(opts.Logtime, opts.Debug, opts.Trace, id)
      [] opts.LogType = RemoteSysLogType -> NewRemoteSysLogger(opts.Debug, opts.Trace, id)
      [] opts.LogType = ConsoleLogType -> NewStdLogger(opts.Logtime, opts.Debug, opts.Trace, id)
      [] opts.LogType = SysLogType -> NewRemoteSysLogger(opts.Debug, opts.Trace, id)
      [] OTHER -> NoLogger

\* The switch without its ConsoleLogType case.
NewLogger_NoConsole(opts, id) ==
    CASE opts.LogType = FileLogType -> NewFileLogger(opts.Logtime, opts.Debug, opts.Trace, id)
      [] opts.LogType = RemoteSysLogType -> NewRemoteSysLogger(opts.Debug, opts.Trace, id)
      [] opts.LogType = SysLogType -> NewSysLogger(opts.Debug, opts.Trace, id)
      [] OTHER -> NoLogger

\* The switch of ConfigureLogger: the backend built for opts, nil when no
\* case matches.  id is the identity of the object a constructor returns.
NewLogger(opts, id) ==
    CASE opts.LogType = FileLogType -> NewFileLogger(opts.Logtime, opts.Debug, opts.Trace, id)
      [] opts.LogType = RemoteSysLogType -> NewRemoteSysLogger(opts.Debug, opts.Trace, id)
      [] opts.LogType = ConsoleLogType -> NewStdLogger(opts.Logtime, opts.Debug, opts.Trace, id)
      [] opts.LogType = SysLogType -> NewSysLogger(opts.Debug, opts.Trace, id)
      [] OTHER -> NoLogger

\* The closures with Fatalf's calling log.Errorf.
Forward_FatalAsError(op, log, format, args) ==
    CASE op = "Noticef" -> [backend |-> log, level |-> "Noticef", format |-> format, args |-> args]
      [] op = "Errorf" -> [backend |-> log, level |-> "Errorf", format |-> format, args |-> args]
      [] op = "Fatalf" -> [backend |-> log, level |-> "Errorf", format |-> format, args |-> args]
      [] op = "Debugf" -> [backend |-> log, level |-> "Debugf", format |-> format, args |-> args]
      [] op = "Tracef" -> [backend |-> log, level |-> "Tracef", format |-> format, args |-> args]

\* The closure each logging function hands to executeLogCall: the one
\* backend operation it invokes, with the format and arguments it passes.
Forward(op, log, format, args) ==
    CASE op = "Noticef" -> [backend |-> log, level |-> "Noticef", format |-> format, args |-> args]
      [] op = "Errorf" -> [backend |-> log, level |-> "Errorf", format |-> format, args |-> args]
      [] op = "Fatalf" -> [backend |-> log, level |-> "Fatalf", format |-> format, args |-> args]
      [] op = "Debugf" -> [backend |-> log, level |-> "Debugf", format |-> format, args |-> args]
      [] op = "Tracef" -> [backend |-> log, level |-> "Tracef", format |-> format, args |-> args]

\* The frame of a call that starts now.
Enter(op, m, lOpts, l) == [op |-> op, format |-> m.format, args |-> m.args, lOpts |-> lOpts, l |-> l, sent |-> <<>>, made |-> <<>>]

NoMessage == [format |-> "", args |-> <<>>]

\* Goroutine t moves on to next with frame fr.
Step(t, fr, next) ==
    /\ ~Crashed
    /\ pc' = [pc EXCEPT ![t] = next]
    /\ frame' = [frame EXCEPT ![t] = fr]

\* Goroutine t returns from its call.
Return(t) == Step(t, NoFrame, "idle")

\* ------------------------------------------------- the logging functions

\* func Noticef: calls executeLogCall.
Noticef(t, M) ==
    /\ AtRest(t)
    /\ \E m \in M : Step(t, Enter("Noticef", m, NilOptions, NoLogger), "lock")
    /\ UNCHANGED <<debug, trace, logger, mutex, built>>

\* func Errorf: calls executeLogCall.
Errorf(t, M) ==
    /\ AtRest(t)
    /\ \E m \in M : Step(t, Enter("Errorf", m, NilOptions, NoLogger), "lock")
    /\ UNCHANGED <<debug, trace, logger, mutex, built>>

\* func Fatalf: calls executeLogCall.
Fatalf(t, M) ==
    /\ AtRest(t)
    /\ \E m \in M : Step(t, Enter("Fatalf", m, NilOptions, NoLogger), "lock")
    /\ UNCHANGED <<debug, trace, logger, mutex, built>>

\* func Debugf: about to load the debug flag.
Debugf(t, M) ==
    /\ AtRest(t)
    /\ \E m \in M : Step(t, Enter("Debugf", m, NilOptions, NoLogger), "gate")
    /\ UNCHANGED <<debug, trace, logger, mutex, built>>

\* func Tracef: about to load the trace flag.
Tracef(t, M) ==
    /\ AtRest(t)
    /\ \E m \in M : Step(t, Enter("Tracef", m, NilOptions, NoLogger), "gate")
    /\ UNCHANGED <<debug, trace, logger, mutex, built>>

\* The flag a gated logging function loads.
Gate(op) == IF op = "Debugf" THEN debug ELSE trace

\* The gate read with a swap that clears the flag it reads.
LoadGate_Swap(t) ==
    /\ pc[t] = "gate"
    /\ IF Gate(frame[t].op) # 0
         THEN Step(t, frame[t], "lock")
         ELSE Return(t)
    /\ debug' = IF frame[t].op = "Debugf" THEN 0 ELSE debug
    /\ trace' = IF frame[t].op = "Tracef" THEN 0 ELSE trace
    /\ UNCHANGED <<logger, mutex, built>>

\* The gate read under the lock: it waits while another goroutine holds it.
LoadGate_WaitsForLock(t) ==
    /\ pc[t] = "gate"
    /\ mutex = NoThread
    /\ IF Gate(frame[t].op) # 0
         THEN Step(t, frame[t], "lock")
         ELSE Return(t)
    /\ UNCHANGED <<debug, trace, logger, mutex, built>>

\* The gated functions without their gate.
LoadGate_Ungated(t) ==
    /\ pc[t] = "gate"
    /\ Step(t, frame[t], "lock")
    /\ UNCHANGED <<debug, trace, logger, mutex, built>>

\* atomic.LoadInt32(&debug) != 0 in Debugf, atomic.LoadInt32(&trace) != 0
\* in Tracef: go on to executeLogCall, or return at once.
LoadGate(t) ==
    /\ pc[t] = "gate"
    /\ IF Gate(frame[t].op) # 0
         THEN Step(t, frame[t], "lock")
         ELSE Return(t)
    /\ UNCHANGED <<debug, trace, logger, mutex, built>>

\* A Lock that does not wait when a logging function takes it.
Lock_LogNoWait(t) ==
    /\ pc[t] = "lock"
    /\ mutex = NoThread \/ frame[t].op \in LogOps
    /\ mutex' = t
    /\ Step(t, frame[t], IF frame[t].op \in LogOps THEN "check" ELSE "write")
    /\ UNCHANGED <<debug, trace, logger, built>>

\* A Lock that does not wait when a configuration function takes it.
Lock_ConfigNoWait(t) ==
    /\ pc[t] = "lock"
    /\ mutex = NoThread \/ frame[t].op \notin LogOps
    /\ mutex' = t
    /\ Step(t, frame[t], IF frame[t].op \in LogOps THEN "check" ELSE "write")
    /\ UNCHANGED <<debug, trace, logger, built>>

\* collectorLog.Lock() in executeLogCall and in SetLogger, RemoveLogger.
Lock(t) ==
    /\ pc[t] = "lock"
    /\ mutex = NoThread
    /\ mutex' = t
    /\ Step(t, frame[t], IF frame[t].op \in LogOps THEN "check" ELSE "write")
    /\ UNCHANGED <<debug, trace, logger, built>>

\* executeLogCall releasing the lock after the nil check, before the call.
Check_ReleaseBeforeCall(t) ==
    /\ pc[t] = "check"
    /\ mutex' = IF logger = NoLogger THEN mutex ELSE NoThread
    /\ Step(t, frame[t], IF logger = NoLogger THEN "unlock" ELSE "invoke")
    /\ UNCHANGED <<debug, trace, logger, built>>

\* executeLogCall returning at the nil check with the lock still held.
Check_LeakLock(t) ==
    /\ pc[t] = "check"
    /\ IF logger = NoLogger
         THEN Return(t)
         ELSE Step(t, frame[t], "invoke")
    /\ UNCHANGED <<debug, trace, logger, mutex, built>>

\* executeLogCall without its nil check.
Check_NoNilCheck(t) ==
    /\ pc[t] = "check"
    /\ Step(t, frame[t], "invoke")
    /\ UNCHANGED <<debug, trace, logger, mutex, built>>

\* if collectorLog.logger == nil { return }
Check(t) ==
    /\ pc[t] = "check"
    /\ Step(t, frame[t], IF logger = NoLogger THEN "unlock" ELSE "invoke")
    /\ UNCHANGED <<debug, trace, logger, mutex, built>>

\* f(collectorLog.logger, format, args...): the slot is read again and the
\* backend operation begins; a method call on a nil interface panics.
Invoke(t) ==
    /\ pc[t] = "invoke"
    /\ IF logger = NoLogger
         THEN Step(t, frame[t], "panic")
         ELSE Step(t, [frame[t] EXCEPT !.sent = Append(@, Forward(frame[t].op, logger, frame[t].format, frame[t].args))], "backend")
    /\ UNCHANGED <<debug, trace, logger, mutex, built>>

\* The backend operation returns to the closure.
BackendReturn(t) ==
    /\ pc[t] = "backend"
    /\ Step(t, frame[t], "unlock")
    /\ UNCHANGED <<debug, trace, logger, mutex, built>>

\* collectorLog.Unlock(), deferred in executeLogCall and the last statement
\* of SetLogger and RemoveLogger: the call returns.
Unlock(t) ==
    /\ pc[t] = "unlock"
    /\ mutex' = NoThread
    /\ Return(t)
    /\ UNCHANGED <<debug, trace, logger, built>>

\* ------------------------------------------- the configuration functions

\* func ConfigureLogger, up to the end of the switch: opts is chosen and
\* the backend is constructed.
ConfigureLogger(t, O) ==
    /\ AtRest(t)
    /\ built < MaxBuilt
    /\ \E lOpts \in O :
         LET opts == Options(lOpts)
             newLogger == NewLogger(opts, built + 1)
             fr == Enter("ConfigureLogger", NoMessage, lOpts, newLogger)
         IN /\ Step(t, [fr EXCEPT !.made = IF newLogger = NoLogger THEN <<>> ELSE <<newLogger>>], "cfg_debug")
            /\ built' = IF newLogger = NoLogger THEN built ELSE built + 1
    /\ UNCHANGED <<debug, trace, logger, mutex>>

\* ConfigureLogger storing the value of opts.Debug, whatever it is.
ConfigureStoreDebug_Assign(t) ==
    /\ pc[t] = "cfg_debug"
    /\ debug' = IF Options(frame[t].lOpts).Debug THEN 1 ELSE 0
    /\ Step(t, frame[t], "cfg_trace")
    /\ UNCHANGED <<trace, logger, mutex, built>>

\* if opts.Debug { atomic.StoreInt32(&debug, 1) }
ConfigureStoreDebug(t) ==
    /\ pc[t] = "cfg_debug"
    /\ debug' = IF Options(frame[t].lOpts).Debug THEN 1 ELSE debug
    /\ Step(t, frame[t], "cfg_trace")
    /\ UNCHANGED <<trace, logger, mutex, built>>

\* ConfigureLogger storing into debug where it should store into trace.
ConfigureStoreTrace_IntoDebug(t) ==
    /\ pc[t] = "cfg_trace"
    /\ debug' = IF Options(frame[t].lOpts).Trace THEN 1 ELSE debug
    /\ Step(t, frame[t], "lock")
    /\ UNCHANGED <<trace, logger, mutex, built>>

\* if opts.Trace { atomic.StoreInt32(&trace, 1) }, then SetLogger(newLogger)
ConfigureStoreTrace(t) ==
    /\ pc[t] = "cfg_trace"
    /\ trace' = IF Options(frame[t].lOpts).Trace THEN 1 ELSE trace
    /\ Step(t, frame[t], "lock")
    /\ UNCHANGED <<debug, logger, mutex, built>>

\* func SetLogger called directly, with a logger of the caller or nil.
SetLogger(t, L) ==
    /\ AtRest(t)
    /\ \E l \in L : Step(t, Enter("SetLogger", NoMessage, NilOptions, l), "lock")
    /\ UNCHANGED <<debug, trace, logger, mutex, built>>

\* A slot write that ignores a nil logger.
Write_SkipNil(t) ==
    /\ pc[t] = "write"
    /\ logger' = IF frame[t].l = NoLogger THEN logger ELSE frame[t].l
    /\ Step(t, frame[t], "unlock")
    /\ UNCHANGED <<debug, trace, mutex, built>>

\* collectorLog.logger = l in SetLogger, collectorLog.logger = nil in
\* RemoveLogger.
Write(t) ==
    /\ pc[t] = "write"
    /\ logger' = frame[t].l
    /\ Step(t, frame[t], "unlock")
    /\ UNCHANGED <<debug, trace, mutex, built>>

\* func RemoveLogger: about to store the trace flag.
RemoveLogger(t) ==
    /\ AtRest(t)
    /\ Step(t, Enter("RemoveLogger", NoMessage, NilOptions, NoLogger), "rm_trace")
    /\ UNCHANGED <<debug, trace, logger, mutex, built>>

\* RemoveLogger leaving the trace flag as it is.
RemoveStoreTrace_Skip(t) ==
    /\ pc[t] = "rm_trace"
    /\ trace' = trace
    /\ Step(t, frame[t], "rm_debug")
    /\ UNCHANGED <<debug, logger, mutex, built>>

\* atomic.StoreInt32(&trace, 0)
RemoveStoreTrace(t) ==
    /\ pc[t] = "rm_trace"
    /\ trace' = 0
    /\ Step(t, frame[t], "rm_debug")
    /\ UNCHANGED <<debug, logger, mutex, built>>

\* RemoveLogger decrementing the debug flag where it should store 0.
RemoveStoreDebug_Decrement(t) ==
    /\ pc[t] = "rm_debug"
    /\ debug' = debug - 1
    /\ Step(t, frame[t], "lock")
    /\ UNCHANGED <<trace, logger, mutex, built>>

\* atomic.StoreInt32(&debug, 0)
RemoveStoreDebug(t) ==
    /\ pc[t] = "rm_debug"
    /\ debug' = 0
    /\ Step(t, frame[t], "lock")
    /\ UNCHANGED <<trace, logger, mutex, built>>

\* ------------------------------------------------------------ observer

Snapshot == [debug |-> debug, trace |-> trace, logger |-> logger]

\* The observer of goroutine t writes down the state each call of t starts
\* from, the frame the call returns with, and the last configuration call
\* (ConfigureLogger, SetLogger, RemoveLogger) that returned before it.
Watch(t) ==
    obs' = IF pc[t] = "idle" /\ pc'[t] # "idle"
             THEN [returned |-> FALSE, call |-> frame'[t], entry |-> Snapshot, prev |-> IF obs.returned /\ obs.call.op \notin LogOps THEN [op |-> obs.call.op, lOpts |-> obs.call.lOpts, clean |-> obs.entry.debug = 0 /\ obs.entry.trace = 0] ELSE obs.prev]
             ELSE IF pc[t] # "idle" /\ pc'[t] = "idle"
                    THEN [obs EXCEPT !.returned = TRUE, !.call = frame[t]]
                    ELSE obs

\* ------------------------------------------------------- specifications

\* The goroutine of the sequential specification.
Caller == CHOOSE t \in Threads : \A u \in Threads : t <= u

\* One goroutine calls the facade, one call after the other, with every
\* argument; an observer takes notes.
SeqNext ==
    \E t \in {Caller} :
        \/ Noticef(t, Messages) /\ Watch(t)
        \/ Errorf(t, Messages) /\ Watch(t)
        \/ Fatalf(t, Messages) /\ Watch(t)
        \/ Debugf(t, Messages) /\ Watch(t)
        \/ Tracef(t, Messages) /\ Watch(t)
        \/ ConfigureLogger(t, OptionsInputs) /\ Watch(t)
        \/ SetLogger(t, TestLoggers \cup {NoLogger}) /\ Watch(t)
        \/ RemoveLogger(t) /\ Watch(t)
        \/ LoadGate(t) /\ Watch(t)
        \/ Lock(t) /\ Watch(t)
        \/ Check(t) /\ Watch(t)
        \/ Invoke(t) /\ Watch(t)
        \/ BackendReturn(t) /\ Watch(t)
        \/ Unlock(t) /\ Watch(t)
        \/ ConfigureStoreDebug(t) /\ Watch(t)
        \/ ConfigureStoreTrace(t) /\ Watch(t)
        \/ Write(t) /\ Watch(t)
        \/ RemoveStoreTrace(t) /\ Watch(t)
        \/ RemoveStoreDebug(t) /\ Watch(t)

SeqSpec == Init /\ [][SeqNext]_vars

\* The arguments the concurrent goroutines use: a configuration that sets
\* both flags with a recognised kind, and one that sets one flag with a kind
\* that matches no case.
ConcOptions == {[nil |-> FALSE, val |-> [Debug |-> TRUE, Trace |-> TRUE, Logtime |-> FALSE, LogType |-> FileLogType]], [nil |-> FALSE, val |-> [Debug |-> TRUE, Trace |-> FALSE, Logtime |-> FALSE, LogType |-> MaxLogType]]}

ConcMessages == {[format |-> "x=%d", args |-> <<5>>]}

ConcLoggers == {TestLogger(1), NoLogger}

\* NumThreads goroutines call the facade concurrently; nobody takes notes.
Next ==
    \E t \in Threads :
        \/ Noticef(t, ConcMessages) /\ UNCHANGED obs
        \/ Errorf(t, ConcMessages) /\ UNCHANGED obs
        \/ Fatalf(t, ConcMessages) /\ UNCHANGED obs
        \/ Debugf(t, ConcMessages) /\ UNCHANGED obs
        \/ Tracef(t, ConcMessages) /\ UNCHANGED obs
        \/ ConfigureLogger(t, ConcOptions) /\ UNCHANGED obs
        \/ SetLogger(t, ConcLoggers) /\ UNCHANGED obs
        \/ RemoveLogger(t) /\ UNCHANGED obs
        \/ LoadGate(t) /\ UNCHANGED obs
        \/ Lock(t) /\ UNCHANGED obs
        \/ Check(t) /\ UNCHANGED obs
        \/ Invoke(t) /\ UNCHANGED obs
        \/ BackendReturn(t) /\ UNCHANGED obs
        \/ Unlock(t) /\ UNCHANGED obs
        \/ ConfigureStoreDebug(t) /\ UNCHANGED obs
        \/ ConfigureStoreTrace(t) /\ UNCHANGED obs
        \/ Write(t) /\ UNCHANGED obs
        \/ RemoveStoreTrace(t) /\ UNCHANGED obs
        \/ RemoveStoreDebug(t) /\ UNCHANGED obs

Spec == Init /\ [][Next]_vars

\* The steps of goroutine t inside a call, but for Lock.
Proceed(t) ==
    \/ LoadGate(t) /\ UNCHANGED obs
    \/ Check(t) /\ UNCHANGED obs
    \/ Invoke(t) /\ UNCHANGED obs
    \/ BackendReturn(t) /\ UNCHANGED obs
    \/ Unlock(t) /\ UNCHANGED obs
    \/ ConfigureStoreDebug(t) /\ UNCHANGED obs
    \/ ConfigureStoreTrace(t) /\ UNCHANGED obs
    \/ Write(t) /\ UNCHANGED obs
    \/ RemoveStoreTrace(t) /\ UNCHANGED obs
    \/ RemoveStoreDebug(t) /\ UNCHANGED obs

\* The options of the goroutines that run under the fair scheduler.
LiveOptions == {[nil |-> FALSE, val |-> [Debug |-> TRUE, Trace |-> FALSE, Logtime |-> FALSE, LogType |-> ConsoleLogType]]}

LiveLoggers == {NoLogger}

\* NumThreads goroutines call every function of the facade concurrently.
LiveNext ==
    \E t \in Threads :
        \/ Noticef(t, ConcMessages) /\ UNCHANGED obs
        \/ Errorf(t, ConcMessages) /\ UNCHANGED obs
        \/ Fatalf(t, ConcMessages) /\ UNCHANGED obs
        \/ Debugf(t, ConcMessages) /\ UNCHANGED obs
        \/ Tracef(t, ConcMessages) /\ UNCHANGED obs
        \/ ConfigureLogger(t, LiveOptions) /\ UNCHANGED obs
        \/ SetLogger(t, LiveLoggers) /\ UNCHANGED obs
        \/ RemoveLogger(t) /\ UNCHANGED obs
        \/ LoadGate(t) /\ UNCHANGED obs
        \/ Lock(t) /\ UNCHANGED obs
        \/ Check(t) /\ UNCHANGED obs
        \/ Invoke(t) /\ UNCHANGED obs
        \/ BackendReturn(t) /\ UNCHANGED obs
        \/ Unlock(t) /\ UNCHANGED obs
        \/ ConfigureStoreDebug(t) /\ UNCHANGED obs
        \/ ConfigureStoreTrace(t) /\ UNCHANGED obs
        \/ Write(t) /\ UNCHANGED obs
        \/ RemoveStoreTrace(t) /\ UNCHANGED obs
        \/ RemoveStoreDebug(t) /\ UNCHANGED obs

\* The concurrent goroutines under a fair scheduler: a goroutine that can
\* take a step inside its call takes it, a backend operation returns, and
\* a goroutine that waits for a lock that is freed again and again gets it.
FairSpec == Init /\ [][LiveNext]_vars /\ \A t \in Threads : WF_vars(Proceed(t)) /\ SF_vars(Lock(t) /\ UNCHANGED obs)

\* The LogType values that match a case of the switch.
Recognised(k) == k \in {ConsoleLogType, SysLogType, RemoteSysLogType, FileLogType}

\* The configurations of the race: a recognised kind, with Debug or Trace.
RaceOptions == {o \in OptionsInputs : ~o.nil /\ Recognised(o.val.LogType) /\ (o.val.Debug \/ o.val.Trace)}

\* One goroutine calls ConfigureLogger while the others call RemoveLogger.
RaceNext ==
    \E t \in Threads :
        \/ t = Caller /\ ConfigureLogger(t, RaceOptions) /\ UNCHANGED obs
        \/ t # Caller /\ RemoveLogger(t) /\ UNCHANGED obs
        \/ ConfigureStoreDebug(t) /\ UNCHANGED obs
        \/ ConfigureStoreTrace(t) /\ UNCHANGED obs
        \/ RemoveStoreTrace(t) /\ UNCHANGED obs
        \/ RemoveStoreDebug(t) /\ UNCHANGED obs
        \/ Lock(t) /\ UNCHANGED obs
        \/ Write(t) /\ UNCHANGED obs
        \/ Unlock(t) /\ UNCHANGED obs

RaceSpec == Init /\ [][RaceNext]_vars

\* ------------------------------------------------------------- properties

\* The observed call has returned and was a call of op.
Returned(op) == obs.returned /\ obs.call.op = op

\* The one invocation a logging call of the observed goroutine makes on
\* the backend that was installed when it started.
Delivered == <<[backend |-> obs.entry.logger, level |-> obs.call.op, format |-> obs.call.format, args |-> obs.call.args]>>

\* The flags and the slot after RemoveLogger.
Cleared == [debug |-> 0, trace |-> 0, logger |-> NoLogger]

\* C1: a logging call that starts with no backend installed, whatever the
\* flags and whatever calls came before, never reaches a backend operation,
\* never panics, and returns having invoked nothing.
C1_SilentWithoutBackend ==
    (obs.call.op \in LogOps /\ obs.entry.logger = NoLogger)
        => /\ pc[Caller] \notin {"invoke", "backend", "panic"}
           /\ frame[Caller].sent = <<>>
           /\ obs.returned => obs.call.sent = <<>>

\* A Debugf has returned that started with the debug flag on and no backend.
C1_Witness == Returned("Debugf") /\ obs.entry.logger = NoLogger /\ obs.entry.debug = 1 /\ obs.call.args = <<5>>

\* C2: with a backend B installed, a Noticef, Errorf or Fatalf call makes
\* exactly one invocation, on B, of the operation of the same level, with
\* the caller's format and arguments in the same order.
C2_ForwardsOnce ==
    (obs.returned /\ obs.call.op \in {"Noticef", "Errorf", "Fatalf"} /\ obs.entry.logger # NoLogger)
        => obs.call.sent = Delivered

\* A Fatalf("x=%d", 5) has returned after SetLogger installed a test logger.
C2_Witness == Returned("Fatalf") /\ obs.prev.op = "SetLogger" /\ obs.entry.logger \in TestLoggers /\ obs.call.format = "x=%d" /\ obs.call.args = <<5>>

\* C3 as stated: Debugf forwards if and only if the debug flag is on, Tracef
\* if and only if the trace flag is on.
C3_ForwardsIffFlag ==
    /\ Returned("Debugf") => (obs.call.sent # <<>> <=> obs.entry.debug # 0)
    /\ Returned("Tracef") => (obs.call.sent # <<>> <=> obs.entry.trace # 0)

\* C3 amended: Debugf forwards (once, to the installed backend) if and only
\* if the debug flag is on and a backend is installed; Tracef likewise with
\* the trace flag.
C3_ForwardsIffFlagAndBackend ==
    /\ Returned("Debugf") => obs.call.sent = IF obs.entry.debug # 0 /\ obs.entry.logger # NoLogger THEN Delivered ELSE <<>>
    /\ Returned("Tracef") => obs.call.sent = IF obs.entry.trace # 0 /\ obs.entry.logger # NoLogger THEN Delivered ELSE <<>>

\* A Tracef has returned that forwarded, with the debug flag off.
C3_Witness == Returned("Tracef") /\ obs.call.sent # <<>> /\ obs.entry.trace = 1 /\ obs.entry.debug = 0

\* The goroutines that are at a statement between Lock and Unlock.
InCritical == {t \in Threads : pc[t] \in {"check", "invoke", "backend", "unlock", "write"}}

\* C4: with goroutines logging while others replace the logger, a goroutine
\* that reads or writes the slot holds the lock, one goroutine at most is
\* between Lock and Unlock, and a backend operation under way was invoked on
\* the value the slot holds, which is not nil; no call panics.
C4_SlotUnderLock ==
    /\ \A t \in InCritical : mutex = t
    /\ Cardinality(InCritical) <= 1
    /\ \A t \in Threads : pc[t] # "panic"
    /\ \A t \in Threads : pc[t] = "backend" => (Len(frame[t].sent) = 1 /\ frame[t].sent[1].backend = logger /\ logger # NoLogger)

\* A goroutine is inside a backend operation while another waits for the
\* lock to replace the logger.
C4_Witness == \E t, u \in Threads : pc[t] = "backend" /\ pc[u] = "lock" /\ frame[u].op \in {"SetLogger", "RemoveLogger"}

\* C5 as stated: ConfigureLogger(nil) constructs no backend and installs
\* none.
C5_NilConfigInstallsNothing ==
    (Returned("ConfigureLogger") /\ obs.call.lOpts.nil) => (obs.call.made = <<>> /\ logger = NoLogger)

\* C5 amended: ConfigureLogger(nil) constructs one console backend, with
\* debug and trace off, installs it and leaves the flags as they were; the
\* Noticef, Errorf and Fatalf calls that follow are forwarded to it.
C5_NilConfigInstallsConsole ==
    /\ (Returned("ConfigureLogger") /\ obs.call.lOpts.nil)
         => /\ Len(obs.call.made) = 1
            /\ logger = obs.call.made[1]
            /\ logger.kind = "console" /\ ~logger.debug /\ ~logger.trace
            /\ debug = obs.entry.debug /\ trace = obs.entry.trace
    /\ (obs.returned /\ obs.call.op \in {"Noticef", "Errorf", "Fatalf"} /\ obs.prev.op = "ConfigureLogger" /\ obs.prev.lOpts.nil)
         => (obs.call.sent = Delivered /\ obs.entry.logger.kind = "console")

\* A Noticef has returned that followed ConfigureLogger(nil).
C5_Witness == Returned("Noticef") /\ obs.prev.op = "ConfigureLogger" /\ obs.prev.lOpts.nil /\ obs.call.sent # <<>>

\* C6: after ConfigureLogger(c) each flag is on exactly when it was on
\* before or c asks for it, and no call but RemoveLogger turns a flag off.
C6_ConfigureOnlyTurnsOn ==
    /\ Returned("ConfigureLogger")
         => /\ debug = IF obs.entry.debug # 0 \/ Options(obs.call.lOpts).Debug THEN 1 ELSE 0
            /\ trace = IF obs.entry.trace # 0 \/ Options(obs.call.lOpts).Trace THEN 1 ELSE 0
    /\ (obs.returned /\ obs.call.op # "RemoveLogger")
         => (obs.entry.debug # 0 => debug # 0) /\ (obs.entry.trace # 0 => trace # 0)

\* A ConfigureLogger with Debug=false has returned after one with
\* Debug=true, the debug flag being on when it started.
C6_Witness == Returned("ConfigureLogger") /\ ~obs.call.lOpts.nil /\ ~Options(obs.call.lOpts).Debug /\ obs.entry.debug = 1 /\ obs.prev.op = "ConfigureLogger" /\ Options(obs.prev.lOpts).Debug

\* C7: after a ConfigureLogger that started with both flags off, with a
\* recognised kind, Debug=d and Trace=t, a backend is installed, a Debugf
\* makes one invocation with its format and arguments when d and none
\* otherwise, and a Tracef one when t and none otherwise.
C7_ConfigureThenGated ==
    (obs.returned /\ obs.prev.op = "ConfigureLogger" /\ obs.prev.clean /\ Recognised(Options(obs.prev.lOpts).LogType))
        => /\ obs.call.op \in LogOps => obs.entry.logger # NoLogger
           /\ obs.call.op = "Debugf" => obs.call.sent = IF Options(obs.prev.lOpts).Debug THEN Delivered ELSE <<>>
           /\ obs.call.op = "Tracef" => obs.call.sent = IF Options(obs.prev.lOpts).Trace THEN Delivered ELSE <<>>

\* Tracef("y") has returned having forwarded nothing, after a console
\* configuration with Debug=true and Trace=false that started with both
\* flags off.
C7_Witness == Returned("Tracef") /\ obs.call.format = "y" /\ obs.call.sent = <<>> /\ obs.prev.op = "ConfigureLogger" /\ obs.prev.clean /\ obs.prev.lOpts.val = [Debug |-> TRUE, Trace |-> FALSE, Logtime |-> FALSE, LogType |-> ConsoleLogType]

\* C8: when RemoveLogger returns the slot is empty and both flags are off,
\* and the logging calls that follow it forward nothing.
C8_RemoveClears ==
    /\ Returned("RemoveLogger") => Snapshot = Cleared
    /\ (obs.returned /\ obs.call.op \in LogOps /\ obs.prev.op = "RemoveLogger") => obs.call.sent = <<>>

\* RemoveLogger has returned, called with a backend installed and both
\* flags on.
C8_Witness == Returned("RemoveLogger") /\ obs.entry.logger # NoLogger /\ obs.entry.debug = 1 /\ obs.entry.trace = 1

\* C9: a RemoveLogger that follows a RemoveLogger returns in the state it
\* started from, the state the first one left.
C9_RemoveIdempotent ==
    (Returned("RemoveLogger") /\ obs.prev.op = "RemoveLogger") => (Snapshot = obs.entry /\ obs.entry = Cleared)

\* The second of two RemoveLogger calls has returned, in a run where a
\* backend had been constructed.
C9_Witness == Returned("RemoveLogger") /\ obs.prev.op = "RemoveLogger" /\ built > 0

\* C10: when SetLogger(l) returns the slot holds l, nil included, and the
\* flags are what they were when it was called.
C10_SetLoggerOnlySlot ==
    Returned("SetLogger") => (logger = obs.call.l /\ debug = obs.entry.debug /\ trace = obs.entry.trace)

\* SetLogger(nil) has returned, called with a backend installed and the
\* debug flag on.
C10_Witness == Returned("SetLogger") /\ obs.call.l = NoLogger /\ obs.entry.logger # NoLogger /\ obs.entry.debug = 1

\* C11: a ConfigureLogger whose LogType matches no case of the switch
\* returns, without a panic, having constructed no backend, and leaves the
\* slot empty, whatever it held before.
C11_UnknownKindNoBackend ==
    /\ (obs.call.op = "ConfigureLogger" /\ ~Recognised(Options(obs.call.lOpts).LogType))
         => (pc[Caller] # "panic" /\ frame[Caller].made = <<>>)
    /\ (Returned("ConfigureLogger") /\ ~Recognised(Options(obs.call.lOpts).LogType))
         => (obs.call.made = <<>> /\ logger = NoLogger)

\* A ConfigureLogger with an unmatched LogType has returned, called with a
\* backend installed.
C11_Witness == Returned("ConfigureLogger") /\ ~Recognised(Options(obs.call.lOpts).LogType) /\ obs.entry.logger # NoLogger

\* The variant each recognised LogType names.
VariantOf(k) ==
    CASE k = FileLogType -> "file"
      [] k = RemoteSysLogType -> "remote-syslog"
      [] k = ConsoleLogType -> "console"
      [] k = SysLogType -> "syslog"

\* C12: a ConfigureLogger with a recognised LogType k constructs exactly one
\* backend, of the variant k names, a new object; when it returns that
\* backend is in the slot and the one installed before is not, and every
\* logging call that follows is forwarded to no other backend.
C12_RecognisedKindInstallsOne ==
    /\ (Returned("ConfigureLogger") /\ Recognised(Options(obs.call.lOpts).LogType))
         => /\ Len(obs.call.made) = 1
            /\ obs.call.made[1].kind = VariantOf(Options(obs.call.lOpts).LogType)
            /\ obs.call.made[1].id = built
            /\ logger = obs.call.made[1]
            /\ logger # obs.entry.logger
    /\ (obs.returned /\ obs.call.op \in LogOps /\ obs.prev.op = "ConfigureLogger" /\ Recognised(Options(obs.prev.lOpts).LogType))
         => /\ obs.entry.logger.kind = VariantOf(Options(obs.prev.lOpts).LogType)
            /\ obs.entry.logger.id = built
            /\ \A i \in 1..Len(obs.call.sent) : obs.call.sent[i].backend = obs.entry.logger

\* A syslog ConfigureLogger has returned, called with another constructed
\* backend installed.
C12_Witness == Returned("ConfigureLogger") /\ Options(obs.call.lOpts).LogType = SysLogType /\ obs.entry.logger.kind \in {"file", "console", "remote-syslog", "syslog"}

\* C14: a logging call that has returned has left both flags and the slot
\* as they were when it started, and the lock free; after Fatalf the
\* goroutine is back between two calls, not stopped.
C14_LoggingChangesNothing ==
    /\ (obs.call.op \in LogOps) => (debug = obs.entry.debug /\ trace = obs.entry.trace /\ logger = obs.entry.logger)
    /\ (obs.returned /\ obs.call.op \in LogOps) => (mutex = NoThread /\ pc[Caller] = "idle" /\ ~Crashed)

\* Fatalf has returned having forwarded to the backend, with both flags on.
C14_Witness == Returned("Fatalf") /\ obs.call.sent # <<>> /\ obs.entry.debug = 1 /\ obs.entry.trace = 1

\* Goroutine t is in a gated logging call, about to load a flag that is off.
GateClosed(t) == pc[t] = "gate" /\ Gate(frame[t].op) = 0

\* C13: a Debugf whose debug flag is off, and a Tracef whose trace flag is
\* off, can take its step whoever holds the lock, and that step returns
\* from the call without touching the lock.
C13_GateClosedSkipsLock ==
    /\ [](\A t \in Threads : GateClosed(t) => ENABLED LoadGate(t))
    /\ [][\A t \in Threads : (GateClosed(t) /\ pc'[t] # "gate") => (pc'[t] = "idle" /\ mutex' = mutex)]_vars

\* A gated call is about to load a flag that is off while another goroutine
\* holds the lock inside a backend operation.
C13_Witness == \E t, u \in Threads : GateClosed(t) /\ pc[u] = "backend" /\ mutex = u

\* The goroutines inside a backend operation.
InBackend == {t \in Threads : pc[t] = "backend"}

\* C16: at most one backend operation started through the facade is under
\* way, and the goroutine that is in it holds the lock.
C16_BackendCallsSerialised ==
    /\ Cardinality(InBackend) <= 1
    /\ \A t \in InBackend : mutex = t

\* A goroutine is inside a backend operation and another logging call
\* waits for the lock.
C16_Witness == \E t, u \in Threads : pc[t] = "backend" /\ pc[u] = "lock" /\ frame[u].op \in LogOps

\* A call that replaces the logger has written the slot.
HasWritten(u) == pc[u] = "unlock" /\ frame[u].op \notin LogOps

\* C17: from the moment a call has written the slot no backend operation is
\* under way, and a backend operation begins, and stays, on the backend the
\* slot holds: none runs or starts on a displaced backend.
C17_NoCallOnDisplaced ==
    /\ [](\A u \in Threads : HasWritten(u) => InBackend = {})
    /\ [](\A t \in InBackend : frame[t].sent[Len(frame[t].sent)].backend = logger)
    /\ [][\A t \in Threads : (pc[t] # "backend" /\ pc'[t] = "backend") => frame'[t].sent = <<Forward(frame[t].op, logger', frame[t].format, frame[t].args)>>]_vars

\* A call that replaces the logger has written the slot while a logging
\* call that started before waits for the lock.
C17_Witness == \E t, u \in Threads : HasWritten(u) /\ frame[u].op \in {"SetLogger", "RemoveLogger"} /\ pc[t] = "lock" /\ frame[t].op \in LogOps

\* No call is under way.
Quiescent == \A t \in Threads : pc[t] = "idle"

\* The int32 value of a flag that is on exactly when b.
FlagOf(b) == IF b THEN 1 ELSE 0

\* C15 as stated: when ConfigureLogger calls (recognised kind, Debug or
\* Trace) and RemoveLogger calls have all completed, the state is that of
\* one of their sequential orders: nothing installed and both flags off, or
\* the newest backend installed and the flags it asked for on (exactly
\* those, when there was one ConfigureLogger).
C15_ConfigurationAtomic ==
    Quiescent =>
        \/ Snapshot = Cleared
        \/ /\ logger # NoLogger /\ logger.id = built
           /\ logger.debug => debug = 1
           /\ logger.trace => trace = 1
           /\ built = 1 => (debug = FlagOf(logger.debug) /\ trace = FlagOf(logger.trace))

\* C15 amended: only the slot is replaced atomically.  When the calls have
\* completed the slot is empty or holds the newest backend, and each flag
\* is 0 or 1, on only if a ConfigureLogger asked for it; the flags are
\* stored outside the lock and need not agree with the slot.
C15_OnlySlotAtomic ==
    Quiescent =>
        /\ logger = NoLogger \/ (logger.id = built /\ logger.kind \in {VariantOf(k) : k \in {ConsoleLogType, SysLogType, RemoteSysLogType, FileLogType}})
        /\ debug \in {0, 1}
        /\ trace \in {0, 1}
        /\ (built = 1 /\ logger # NoLogger) => ((debug = 1 => logger.debug) /\ (trace = 1 => logger.trace))

\* One ConfigureLogger and the RemoveLogger calls have completed, leaving a
\* flag on with no backend installed.
C15_Witness == Quiescent /\ built = 1 /\ logger = NoLogger /\ debug = 1

\* C18: under a fair scheduler, with backend operations that return, every
\* goroutine is at rest again and again, so every call that has started
\* returns, and whenever no call is under way the lock is free.
C18_CallsReturnLockFree ==
    /\ \A t \in Threads : []<>AtRest(t)
    /\ [](Quiescent => mutex = NoThread)

\* A goroutine waits for the lock while another, having found no backend
\* at the nil check, is about to release it.
C18_Witness == \E t, u \in Threads : pc[t] = "lock" /\ pc[u] = "unlock" /\ frame[u].op \in LogOps /\ frame[u].sent = <<>> /\ mutex = u

====
